---- MODULE Spec2Model ----
(***************************************************************************)
(* A model of the useCandyMachineV3 hook (src/hooks/useCandyMachineV3.tsx): *)
(* the memoised allow-list index (proofMemo), the refresh of the candy      *)
(* machine, the evaluation of the guard groups and the mint callback.       *)
(***************************************************************************)
EXTENDS Integers, Sequences, FiniteSets, TLC

\* ------------------------------------------------------------------ bounds
\* Addresses are 1..NumAddr; NoKey stands for wallet.publicKey == null.
NumAddr == 2
\* Largest quantity a mint call asks for.
MaxQty == 2
\* Number of mint invocations one behaviour makes.
MaxInvocations == 1
\* Fetches of the candy machine, requests for the holdings and guard
\* evaluations that may each be in flight at once: one per mint invocation. A
\* step that would start one more waits until one has settled.
MaxInflight == MaxInvocations

NoKey == 0
Addr == 1..NumAddr
Wallets == {NoKey} \cup Addr

\* opts.groupLabel == undefined (and the empty string, equally falsy).
NoLabel == ""
Labels == {"default", "A"}
ReqLabels == {NoLabel, "A"}

\* ------------------------------------------------- Merkle tree (ideal hash)
\* keccak_256 of an address string: an injective map into 1..NumAddr.
LeafHash(a) ==
    a

\* keccak_256 of the concatenation of a pair sorted by Buffer.compare
\* (sortPairs: true): injective on unordered pairs, never a leaf hash.
PairHash(x, y) ==
    LET lo == IF x <= y THEN x ELSE y
        hi == IF x <= y THEN y ELSE x
    IN  NumAddr + 1 + ((lo + hi) * (lo + hi + 1)) \div 2 + hi

\* One layer up: neighbours are hashed in pairs, an odd last node is promoted.
NextLayer(nodes) ==
    [i \in 1..((Len(nodes) + 1) \div 2) |->
        IF 2 * i <= Len(nodes)
        THEN PairHash(nodes[2 * i - 1], nodes[2 * i])
        ELSE nodes[2 * i - 1]]

RECURSIVE LayerRoot(_)
LayerRoot(nodes) ==
    IF Len(nodes) = 0 THEN 0
    ELSE IF Len(nodes) = 1 THEN nodes[1]
    ELSE LayerRoot(NextLayer(nodes))

\* MerkleTree.getProof: idx is the 0-based index of the leaf in this layer.
RECURSIVE LayerProof(_, _)
LayerProof(nodes, idx) ==
    LET pairIndex == IF idx % 2 = 1 THEN idx - 1 ELSE idx + 1
        here == IF pairIndex < Len(nodes) THEN <<nodes[pairIndex + 1]>> ELSE <<>>
    IN  IF Len(nodes) <= 1 THEN here
        ELSE here \o LayerProof(NextLayer(nodes), idx \div 2)

Leaves(list) ==
    [i \in 1..Len(list) |-> LeafHash(list[i])]

\* getMerkleTree(list).getRoot()
MerkleRoot(list) ==
    LayerRoot(Leaves(list))

\* getMerkleProof(list, address): the last leaf equal to the address's hash,
\* the empty proof when there is none.
MerkleProof(list, a) ==
    LET hits == {i \in 1..Len(list) : LeafHash(list[i]) = LeafHash(a)}
    IN  IF hits = {} THEN <<>>
        ELSE LayerProof(Leaves(list), (CHOOSE i \in hits : \A j \in hits : j <= i) - 1)

\* ------------------------------------------------------- allow-list inputs
\* Address lists of one entry: ascending, without repetition, not empty.
RECURSIVE AscSeqs(_)
AscSeqs(lo) ==
    {<<>>} \cup UNION {{<<a>> \o s : s \in AscSeqs(a + 1)} : a \in lo..NumAddr}

Lists == AscSeqs(1) \ {<<>>}

Entries == [groupLabel : Labels, list : Lists]

\* candyMachineOpts.allowLists: absent/empty, or one entry per label, the
\* default group's first.
ALDefs ==
    {<<>>} \cup {<<e>> : e \in Entries}
           \cup {<<p[1], p[2]>> : p \in {x \in Entries \X Entries :
                                            x[1].groupLabel = "default" /\ x[2].groupLabel = "A"}}

\* -------------------------------------------------------------- proofMemo
\* The merkles object built by the reduce: a later entry of a label wins.
Merkles(al, w) ==
    [l \in {al[i].groupLabel : i \in 1..Len(al)} |->
        LET i == CHOOSE k \in 1..Len(al) :
                    /\ al[k].groupLabel = l
                    /\ \A j \in 1..Len(al) : al[j].groupLabel = l => j <= k
        IN  [root |-> MerkleRoot(al[i].list), proof |-> MerkleProof(al[i].list, w)]]

NoMerkles == [l \in {} |-> 0]

\* Mutant: the wallet is looked at before the allow-lists.
ProofMemoComputeWalletFirst(al, w) ==
    IF w = NoKey THEN [kind |-> "closed", merkles |-> NoMerkles]
    ELSE IF Len(al) = 0 THEN [kind |-> "open", merkles |-> NoMerkles]
    ELSE [kind |-> "merkles", merkles |-> Merkles(al, w)]

\* The value the useMemo callback returns.
ProofMemoCompute(al, w) ==
    IF Len(al) = 0 THEN [kind |-> "open", merkles |-> NoMerkles]
    ELSE IF w = NoKey THEN [kind |-> "closed", merkles |-> NoMerkles]
    ELSE [kind |-> "merkles", merkles |-> Merkles(al, w)]

\* useMemo with deps [wallet.publicKey, allowLists?.length]: the callback is
\* run again only when one of the two differs from the previous render.
ProofMemoRender(pm, oldAl, oldW, al, w) ==
    IF oldW = w /\ Len(oldAl) = Len(al) THEN pm ELSE ProofMemoCompute(al, w)

\* !!merkle.proof: the proof is an array, and every array is truthy.
VerifiedProof(proof) ==
    TRUE

\* proofMemo.verifyProof(merkleRoot, label = "default")
VerifyProof(pm, merkleRoot, label) ==
    LET lab == IF label = NoLabel THEN "default" ELSE label
    IN  IF pm.kind = "open" THEN "true"
        ELSE IF pm.kind = "closed" THEN "false"
        ELSE IF lab \notin DOMAIN pm.merkles THEN "undefined"
        ELSE IF VerifiedProof(pm.merkles[lab].proof) /\ pm.merkles[lab].root = merkleRoot
             THEN "true" ELSE "false"

\* ------------------------------------------------------------------- state
VARIABLES
    allowLists,       \* candyMachineOpts.allowLists
    wallet,           \* wallet.publicKey
    proofMemo,        \* the memoised value of proofMemo
    candyMachine,     \* the candyMachine state: "null" or "loaded"
    refreshing,       \* fetches of refresh() in flight
    holdings,         \* findAllByOwner requests of the wallet effect in flight
    evals,            \* guard-group evaluations in flight: the wallet each captured
                      \* and the groups it has parsed so far
    guardsAndGroups,  \* the guardsAndGroups state: [id, groups]
    minting,          \* status.minting
    minted,           \* ledger: mint transactions finalized, per fee payer
    cmGroups,         \* ledger: labels of candyMachine.candyGuard.groups
    cmLimits,         \* ledger: labels whose guards carry a mintLimit counter
    calls,            \* the invocations of mint
    invocations,      \* number of mint invocations made so far
    load              \* what the page asks of the hook: how many mint invocations
                      \* it makes, how many fetches and evaluations run at once

vars == <<allowLists, wallet, proofMemo, candyMachine, refreshing, holdings, evals,
          guardsAndGroups, minting, minted, cmGroups, cmLimits, calls, invocations, load>>

hookVars == <<allowLists, wallet, proofMemo, candyMachine, refreshing, holdings, evals, guardsAndGroups>>
\* What no step of the hook changes: the candy guard on the ledger and the load.
ledgerVars == <<cmGroups, cmLimits, load>>
mintVars == <<minting, minted, calls, invocations>>

NoCounter == -1
NoGroups == [l \in {} |-> 0]

\* No error caught; no transaction; an execution context that is not there
\* (yet); the undefined members of a context that is not a mint's.
NoError == [msg |-> "", message |-> <<>>, code |-> -1]
NoTx == [kind |-> "none", index |-> -1, blockhash |-> 0, feePayer |-> NoKey, partial |-> {}]
Undefined == -1
NoContext == [mintSigner |-> Undefined, tokenAddress |-> Undefined]

CallIds == {1}

\* A mint invocation that has not been made.
IdleCall ==
    [pc |-> "idle", q |-> 0, label |-> NoLabel,
     cm |-> "null", pm |-> ProofMemoCompute(<<>>, NoKey), wal |-> NoKey,
     ggId |-> -1, gg0 |-> NoGroups, gg |-> NoGroups,
     allowList |-> FALSE, builders |-> <<>>, blockhash |-> 0, signed |-> 0,
     transactions |-> <<>>, signers |-> <<>>, signCalls |-> <<>>, routeTx |-> NoTx,
     route |-> "none", txs |-> <<>>, outputs |-> <<>>, lookups |-> <<>>, nfts |-> <<>>,
     caught |-> NoError, thrown |-> "", outcome |-> "none", result |-> <<>>, error |-> "",
     cleanups |-> 0, refreshes |-> 0]

\* The hook as mounted: no wallet yet, nothing fetched.
InitHook ==
    /\ allowLists \in ALDefs
    /\ wallet = NoKey
    /\ proofMemo = ProofMemoCompute(allowLists, wallet)
    /\ candyMachine = "null"
    /\ refreshing = 0
    /\ holdings = 0
    /\ evals = <<>>
    /\ guardsAndGroups = [id |-> 0, groups |-> NoGroups]
    /\ minting = FALSE
    /\ minted = [a \in Addr |-> 0]
    /\ cmGroups \in SUBSET {"A"}
    /\ cmLimits \in SUBSET ({"default"} \cup cmGroups)
    /\ invocations = 0

\* The page makes MaxInvocations mint invocations, one after the other.
Init ==
    /\ InitHook
    /\ calls = [c \in CallIds |-> IdleCall]
    /\ load = [invocations |-> MaxInvocations, inflight |-> MaxInflight]

\* ------------------------------------------------------ refresh and effects
\* refresh(): throws before fetching while the wallet is not loaded.
RefreshFetches(w) ==
    IF w = NoKey THEN 0 ELSE 1

\* The wallet effect ([mx, wallet.publicKey]): with a wallet it asks for the
\* balance, the NFT holdings and the token accounts; the holdings feed the
\* guard effect.
HoldingsFetches(w) ==
    IF w = NoKey THEN 0 ELSE 1

\* The guard-group effect: it evaluates only with a wallet and a candy machine,
\* and captures the wallet of the render it runs in; no group is parsed yet.
EvalEffect(evs, w, cm) ==
    IF w = NoKey \/ cm = "null" THEN evs ELSE Append(evs, [wallet |-> w, got |-> NoGroups])

\* The wallet adapter reports another public key (or none): a render, the
\* wallet effect, the refresh effect (refresh depends on wallet.publicKey) and
\* the guard effect.
SetWallet(w) ==
    /\ w # wallet
    /\ refreshing + RefreshFetches(w) <= load.inflight
    /\ holdings + HoldingsFetches(w) <= load.inflight
    /\ Len(EvalEffect(evals, w, candyMachine)) <= load.inflight
    /\ wallet' = w
    /\ proofMemo' = ProofMemoRender(proofMemo, allowLists, wallet, allowLists, w)
    /\ refreshing' = refreshing + RefreshFetches(w)
    /\ holdings' = holdings + HoldingsFetches(w)
    /\ evals' = EvalEffect(evals, w, candyMachine)
    /\ UNCHANGED <<allowLists, candyMachine, guardsAndGroups>>
    /\ UNCHANGED ledgerVars
    /\ UNCHANGED mintVars

\* findAllByOwner settles: on success setNftHoldings(x.filter(...)), a new
\* array, so the guard effect runs; a failure is only logged.
HoldingsDone(ok) ==
    /\ holdings > 0
    /\ ok => Len(EvalEffect(evals, wallet, candyMachine)) <= load.inflight
    /\ holdings' = holdings - 1
    /\ evals' = IF ok THEN EvalEffect(evals, wallet, candyMachine) ELSE evals
    /\ UNCHANGED <<allowLists, wallet, proofMemo, candyMachine, refreshing, guardsAndGroups>>
    /\ UNCHANGED ledgerVars
    /\ UNCHANGED mintVars

\* The component passes other allow-lists: a render; the guard effect runs
\* when the render produced a new proofMemo.
SetAllowLists(al) ==
    /\ al # allowLists
    /\ Len(al) # Len(allowLists) => Len(EvalEffect(evals, wallet, candyMachine)) <= load.inflight
    /\ allowLists' = al
    /\ proofMemo' = ProofMemoRender(proofMemo, allowLists, wallet, al, wallet)
    /\ evals' = IF Len(al) # Len(allowLists)
                THEN EvalEffect(evals, wallet, candyMachine)
                ELSE evals
    /\ UNCHANGED <<wallet, candyMachine, refreshing, holdings, guardsAndGroups>>
    /\ UNCHANGED ledgerVars
    /\ UNCHANGED mintVars

\* The page calls the refresh() the hook returns. Without a wallet the call
\* throws before it changes anything.
Refresh ==
    /\ wallet # NoKey
    /\ refreshing + RefreshFetches(wallet) <= load.inflight
    /\ refreshing' = refreshing + RefreshFetches(wallet)
    /\ UNCHANGED <<allowLists, wallet, proofMemo, candyMachine, holdings, evals, guardsAndGroups>>
    /\ UNCHANGED ledgerVars
    /\ UNCHANGED mintVars

\* fetchCandyMachine() settles: on success setCandyMachine(cndy), a new object,
\* so the guard effect runs; a failure is only logged.
RefreshDone(ok) ==
    /\ refreshing > 0
    /\ ok => Len(EvalEffect(evals, wallet, "loaded")) <= load.inflight
    /\ refreshing' = refreshing - 1
    /\ candyMachine' = IF ok THEN "loaded" ELSE candyMachine
    /\ evals' = IF ok THEN EvalEffect(evals, wallet, "loaded") ELSE evals
    /\ UNCHANGED <<allowLists, wallet, proofMemo, holdings, guardsAndGroups>>
    /\ UNCHANGED ledgerVars
    /\ UNCHANGED mintVars

\* An identity for the object setGuardsAndGroups stores: not the current one,
\* and not one a running mint call still holds.
FreshId ==
    CHOOSE n \in 0..(Cardinality(DOMAIN calls) + 1) :
        /\ n # guardsAndGroups.id
        /\ \A c \in DOMAIN calls : calls[c].ggId # n
        /\ \A m \in 0..(n - 1) : m = guardsAndGroups.id \/ \E c \in DOMAIN calls : calls[c].ggId = m

\* What parseGuardGroup yields for a label: the group for the wallet, with the
\* mint counter it fetches from the ledger where the group has a mint limit.
ParsedGroup(w, l) ==
    [owner |-> w, count |-> IF l \in cmLimits THEN minted[w] ELSE NoCounter]

\* The guards object of an evaluation during which the ledger does not change:
\* "default" and one entry per group of the candy machine.
EvaluatedGroups(e) ==
    [l \in {"default"} \cup cmGroups |-> ParsedGroup(e.wallet, l)]

\* The labels whose parseGuardGroup an evaluation is waiting for: the default
\* group's first, the candy machine's groups together once that has settled.
Awaited(e) ==
    IF "default" \notin DOMAIN e.got THEN {"default"} ELSE cmGroups \ DOMAIN e.got

\* evals without its i-th evaluation.
Without(evs, i) ==
    [k \in 1..(Len(evs) - 1) |-> IF k < i THEN evs[k] ELSE evs[k + 1]]

\* parseGuardGroup for label l of the i-th evaluation in flight settles. When
\* it was the last one awaited, setGuardsAndGroups(guards) follows; when it
\* rejects, the evaluation ends there and nothing is stored.
ParseGuardGroup(i, l, ok) ==
    /\ i \in 1..Len(evals)
    /\ l \in Awaited(evals[i])
    /\ LET e == evals[i]
           got == [k \in DOMAIN e.got \cup {l} |->
                      IF k = l THEN ParsedGroup(e.wallet, l) ELSE e.got[k]]
           e2 == [e EXCEPT !.got = got]
       IN  IF ~ok
           THEN /\ evals' = Without(evals, i)
                /\ UNCHANGED guardsAndGroups
           ELSE IF Awaited(e2) = {}
           THEN /\ evals' = Without(evals, i)
                /\ guardsAndGroups' = [id |-> FreshId, groups |-> got]
           ELSE /\ evals' = [evals EXCEPT ![i] = e2]
                /\ UNCHANGED guardsAndGroups
    /\ UNCHANGED <<allowLists, wallet, proofMemo, candyMachine, refreshing, holdings>>
    /\ UNCHANGED ledgerVars
    /\ UNCHANGED mintVars

NextMemo ==
    \/ \E w \in Wallets : SetWallet(w)
    \/ \E al \in ALDefs : SetAllowLists(al)
    \/ \E ok \in BOOLEAN : HoldingsDone(ok)
    \/ Refresh
    \/ \E ok \in BOOLEAN : RefreshDone(ok)
    \/ \E i \in 1..MaxInflight, l \in Labels, ok \in BOOLEAN : ParseGuardGroup(i, l, ok)

\* The hook mounted for a candy machine without groups and mint limits.
InitMemo ==
    /\ Init
    /\ cmGroups = {}
    /\ cmLimits = {}

SpecMemo == InitMemo /\ [][NextMemo]_vars

\* ------------------------------------------------------- error classifier
\* The substrings of an error message the classifier looks for; "x" is any
\* other text.
Tokens == {"0x138", "0x137", "0x135", "x"}

\* String.prototype.indexOf: the 0-based place of the first occurrence, -1
\* when there is none.
IndexOf(message, tok) ==
    LET hits == {i \in 1..Len(message) : message[i] = tok}
    IN  IF hits = {} THEN -1 ELSE (CHOOSE i \in hits : \A j \in hits : i <= j) - 1

\* A number used as a condition: every number but 0 is truthy.
Truthy(n) ==
    n # 0

MintFailed == "Minting failed! Please try again!"
Timeout == "Transaction Timeout! Please try again."
SoldOut == "SOLD OUT!"
InsufficientFunds == "Insufficient funds to mint. Please fund your wallet."
NotStarted == "Minting period hasn't started yet."

\* The catch block: the message of the Error it throws for the error caught.
\* An error is [msg, message, code]; "" and <<>> stand for an absent field.
Classify(error) ==
    LET message == IF error.msg # "" THEN error.msg ELSE MintFailed
    IN  IF error.msg = ""
        THEN IF error.message = <<>> THEN Timeout
             ELSE IF Truthy(IndexOf(error.message, "0x138")) THEN message
             ELSE IF Truthy(IndexOf(error.message, "0x137")) THEN SoldOut
             ELSE IF Truthy(IndexOf(error.message, "0x135")) THEN InsufficientFunds
             ELSE message
        ELSE IF error.code = 311 THEN SoldOut
             ELSE IF error.code = 312 THEN NotStarted
             ELSE message

\* new Error(text): a message and nothing else.
JsError(text) ==
    [msg |-> "", message |-> <<text>>, code |-> 0]

UnknownGroup == "Unknown guard group label"
CandyMachineNotLoaded == "Candy Machine not loaded yet!"
NotInAllowList == "User is not in allowed list"
TypeError == "TypeError: Cannot read properties of undefined"

\* What the awaited calls of mint reject with: an error without any message,
\* a program error log, or an error that carries msg and code.
NetErrors ==
    {[msg |-> "", message |-> <<>>, code |-> 0],
     [msg |-> "", message |-> <<"x", "0x137">>, code |-> 0],
     [msg |-> "x", message |-> <<"x">>, code |-> 311]}

\* ---------------------------------------------------------------- mint()
\* opts.groupLabel || "default"
GroupKey(label) ==
    IF label = NoLabel THEN "default" ELSE label

\* proofMemo.merkles[opts.groupLabel] is read although proofMemo has no
\* merkles (no allow-list configured, or no wallet): a TypeError.
MerklesMissing(pm, label) ==
    label # NoLabel /\ pm.kind # "merkles"

\* const allowList = opts.groupLabel && proofMemo.merkles[opts.groupLabel] && {proof}
AllowListOf(pm, label) ==
    label # NoLabel /\ pm.kind = "merkles" /\ label \in DOMAIN pm.merkles

\* Mutant: everything from the first failed lookup on is dropped.
FilterUntilNull(nfts) ==
    IF \E k \in 1..Len(nfts) : nfts[k] = 0
    THEN SubSeq(nfts, 1, (CHOOSE k \in 1..Len(nfts) :
                             nfts[k] = 0 /\ \A j \in 1..(k - 1) : nfts[j] # 0) - 1)
    ELSE nfts

\* nfts.filter((a) => a): the lookups that found their item, in order.
FilterNfts(nfts) ==
    SelectSeq(nfts, LAMBDA n : n # 0)

\* How an invocation completes when its finally block has run: the block's
\* return replaces the Error the catch block threw.
Completion(r) ==
    [r EXCEPT !.outcome = "resolved", !.result = FilterNfts(r.nfts), !.error = ""]

\* Mutant: a finally block that does not call refresh().
FinallyNoRefresh(r) ==
    Completion([r EXCEPT !.pc = "done", !.cleanups = @ + 1])

\* The finally block: setStatus(minting: false), refresh(), return.
Finally(r) ==
    Completion([r EXCEPT !.pc = "done", !.cleanups = @ + 1, !.refreshes = @ + 1])

\* Mutant: the counters are increased on the failure path as well, by the
\* number of mint transactions finalized so far.
CatchCounting(r, error) ==
    Finally([r EXCEPT !.caught = error, !.thrown = Classify(error),
                      !.gg = [l \in DOMAIN r.gg |->
                                 IF r.gg[l].count # NoCounter
                                 THEN [r.gg[l] EXCEPT !.count = @ +
                                          Cardinality({i \in 1..Len(r.txs) : r.txs[i] = "finalized"})]
                                 ELSE r.gg[l]]])

\* The catch block followed by the finally block.
Catch(r, error) ==
    Finally([r EXCEPT !.caught = error, !.thrown = Classify(error)])

\* A throw before the try statement: the promise mint returned is rejected.
ThrowOutside(r, text) ==
    [r EXCEPT !.pc = "done", !.outcome = "rejected", !.error = text]

\* guards.mintLimit.mintCounter.count += nfts.length
CounterIncrement(nfts) ==
    Len(nfts)

\* Object.values(guardsAndGroups).forEach(...): every group that has a mint
\* counter gets the increment.
AddToCounters(groups, n) ==
    [l \in DOMAIN groups |->
        IF groups[l].count # NoCounter
        THEN [groups[l] EXCEPT !.count = @ + n]
        ELSE groups[l]]

\* The mint transaction builders pushed so far.
MintBuilders(r) ==
    SelectSeq(r.builders, LAMBDA b : b.kind = "mint")

\* callCandyGuardRouteBuilder(...) and mintFromCandyMachineBuilder(...) for
\* the loop's index.
RouteBuilder ==
    [kind |-> "route", index |-> -1]

MintBuilder(index) ==
    [kind |-> "mint", index |-> index]

\* builder.getSigners(): the identity pays for every transaction; a mint
\* transaction is also signed by the keypair generated for its mint account.
GetSigners(b, identity) ==
    IF b.kind = "mint"
    THEN <<[kind |-> "identity", key |-> identity], [kind |-> "keypair", key |-> b.index]>>
    ELSE <<[kind |-> "identity", key |-> identity]>>

\* builder.getContext(): a mint builder knows its mint signer and token
\* address, a route builder has neither.
GetContext(b) ==
    IF b.kind = "mint" THEN [mintSigner |-> b.index, tokenAddress |-> b.index] ELSE NoContext

\* The n-th getLatestBlockhash() of a call: a block hash no earlier fetch
\* returned.
LatestBlockhash(n) ==
    n

\* Mutant: every transaction is made with a block hash of its own.
ToTransactionOwnHash(b, blockhash, feePayer, identity) ==
    [kind |-> b.kind, index |-> b.index, blockhash |-> blockhash + b.index + 1,
     feePayer |-> feePayer, partial |-> {}]

\* t.toTransaction(blockhash), then feePayer, recentBlockhash and partialSign
\* with the signers that hold a secret key.
ToTransaction(b, blockhash, feePayer, identity) ==
    [kind |-> b.kind, index |-> b.index, blockhash |-> blockhash, feePayer |-> feePayer,
     partial |-> {GetSigners(b, identity)[k].key :
                     k \in {j \in 1..Len(GetSigners(b, identity)) :
                               GetSigners(b, identity)[j].kind = "keypair"}}]

\* The signers object: the keys of the builders' signers that can sign a
\* batch ("signAllTransactions" in s), each once, in the order first met.
RECURSIVE SignerKeys(_, _)
SignerKeys(builders, identity) ==
    IF builders = <<>> THEN <<>>
    ELSE LET rest == SignerKeys(SubSeq(builders, 1, Len(builders) - 1), identity)
             last == GetSigners(builders[Len(builders)], identity)
             new == SelectSeq(last, LAMBDA g :
                        /\ g.kind = "identity"
                        /\ \A k \in 1..Len(rest) : rest[k] # g.key)
         IN  rest \o (IF Len(new) = 0 THEN <<>> ELSE <<new[1].key>>)

\* Mutant: a batch signer is handed the mint transactions only.
ReceivedMintsOnly(r) ==
    SelectSeq(r.transactions, LAMBDA t : t.kind = "mint")

\* The argument of signAllTransactions: the transactions array.
Received(r) ==
    r.transactions

\* Mutant: the mint transactions are submitted one after the other, the next
\* one only when the one before is finalized.
SubmitFirstOnly(r) ==
    [r EXCEPT !.pc = "mints",
              !.txs = [i \in 1..1 |-> "sent"],
              !.outputs = [i \in 1..1 |-> NoContext]]

\* signedTransactions.map(sendAndConfirmTransaction): every mint transaction
\* of the plan is handed to the ledger client.
SubmitMints(r) ==
    [r EXCEPT !.pc = "mints",
              !.txs = [i \in 1..Len(r.transactions) |-> "sent"],
              !.outputs = [i \in 1..Len(r.transactions) |-> NoContext]]

\* One step of invocation c, from record r1 to r2: the call's record, and the
\* hook state the finally block touches when the step ran it.
Step(c, r1, r2, setsMinting) ==
    LET cleaned == r2.cleanups > r1.cleanups
    IN  /\ cleaned => refreshing + RefreshFetches(r2.wal) <= load.inflight
        /\ calls' = [calls EXCEPT ![c] = r2]
        /\ minting' = IF cleaned THEN FALSE ELSE IF setsMinting THEN TRUE ELSE minting
        /\ refreshing' = IF cleaned THEN refreshing + RefreshFetches(r2.wal) ELSE refreshing

\* mint(quantityString, {groupLabel}) is invoked: everything up to the first
\* await (the first mintFromCandyMachineBuilder), or up to its failure.
MintCall(c, q, label) ==
    LET r0 == [IdleCall EXCEPT !.q = q, !.label = label,
                   !.cm = candyMachine, !.pm = proofMemo, !.wal = wallet,
                   !.ggId = guardsAndGroups.id,
                   !.gg0 = guardsAndGroups.groups, !.gg = guardsAndGroups.groups]
        allowList == AllowListOf(proofMemo, label)
        r1 == [r0 EXCEPT !.allowList = allowList]
    IN  /\ calls[c].pc \in {"idle", "done"}
        /\ invocations < load.invocations
        /\ invocations' = invocations + 1
        /\ IF GroupKey(label) \notin DOMAIN guardsAndGroups.groups
           THEN Step(c, r0, ThrowOutside(r0, UnknownGroup), FALSE)
           ELSE IF MerklesMissing(proofMemo, label)
           THEN Step(c, r0, ThrowOutside(r0, TypeError), FALSE)
           ELSE IF candyMachine = "null"
           THEN Step(c, r1, Catch(r1, JsError(CandyMachineNotLoaded)), FALSE)
           ELSE IF allowList /\ Len(proofMemo.merkles[GroupKey(label)].proof) = 0
           THEN Step(c, r1, Catch(r1, JsError(NotInAllowList)), TRUE)
           ELSE Step(c, r1,
                     [r1 EXCEPT !.pc = "build",
                                !.builders = IF allowList THEN <<RouteBuilder>> ELSE <<>>],
                     TRUE)
        /\ UNCHANGED <<allowLists, wallet, proofMemo, candyMachine, holdings, evals, guardsAndGroups>>
        /\ UNCHANGED ledgerVars
        /\ UNCHANGED minted

\* await mintFromCandyMachineBuilder(...) settles for the next index.
MintBuild(c, ok, error) ==
    LET r == calls[c]
        index == Len(MintBuilders(r))
        r2 == [r EXCEPT !.builders = Append(@, MintBuilder(index)),
                        !.pc = IF index + 1 < r.q THEN "build" ELSE "blockhash"]
    IN  /\ r.pc = "build"
        /\ Step(c, r, IF ok THEN r2 ELSE Catch(r, error), FALSE)
        /\ UNCHANGED <<allowLists, wallet, proofMemo, candyMachine, holdings, evals, guardsAndGroups>>
        /\ UNCHANGED ledgerVars
        /\ UNCHANGED <<minted, invocations>>

\* await mx.rpc().getLatestBlockhash() settles; then the transactions are
\* made and the signers collected, up to the first signAllTransactions.
MintBlockhash(c, ok, error) ==
    LET r == calls[c]
        r2 == [r EXCEPT !.blockhash = @ + 1,
                        !.transactions = [i \in 1..Len(r.builders) |->
                            ToTransaction(r.builders[i], LatestBlockhash(r.blockhash + 1),
                                          r.wal, r.wal)],
                        !.signers = SignerKeys(r.builders, r.wal),
                        !.pc = "sign"]
    IN  /\ r.pc = "blockhash"
        /\ Step(c, r, IF ok THEN r2 ELSE Catch(r, error), FALSE)
        /\ UNCHANGED <<allowLists, wallet, proofMemo, candyMachine, holdings, evals, guardsAndGroups>>
        /\ UNCHANGED ledgerVars
        /\ UNCHANGED <<minted, invocations>>

\* Mutant: the route transaction is sent without being awaited, the mint
\* transactions go out with it.
SendRouteUnawaited(r) ==
    [r EXCEPT !.pc = "mints", !.route = "sent", !.builders = Tail(@),
              !.routeTx = Head(r.transactions), !.transactions = Tail(@),
              !.txs = [i \in 1..(Len(r.builders) - 1) |-> "sent"],
              !.outputs = [i \in 1..(Len(r.builders) - 1) |-> NoContext]]

\* Mutant: the route transaction is shifted off the plan, its builder is not.
SendRouteKeepsBuilder(r) ==
    [r EXCEPT !.pc = "route", !.route = "sent",
              !.routeTx = Head(r.transactions), !.transactions = Tail(@)]

\* The route transaction and its builder are shifted off the plan, and the
\* route transaction is sent: the mint transactions wait for it.
SendRoute(r) ==
    [r EXCEPT !.pc = "route", !.route = "sent", !.builders = Tail(@),
              !.routeTx = Head(r.transactions), !.transactions = Tail(@)]

\* await signers[signer].signAllTransactions(transactions) settles for the
\* next signer of the loop; after the last one the route transaction is sent
\* when there is one, the mint transactions otherwise.
MintSign(c, ok, error) ==
    LET r == calls[c]
        r1 == [r EXCEPT !.signed = @ + 1,
                        !.signCalls = Append(@, [signer |-> r.signers[Len(r.signCalls) + 1],
                                                 received |-> Received(r),
                                                 ok |-> ok])]
        r2 == IF Len(r1.signCalls) < Len(r.signers) THEN r1
              ELSE IF r.allowList THEN SendRoute(r1) ELSE SubmitMints(r1)
    IN  /\ r.pc = "sign"
        /\ Step(c, r, IF ok THEN r2 ELSE Catch(r1, error), FALSE)
        /\ UNCHANGED <<allowLists, wallet, proofMemo, candyMachine, holdings, evals, guardsAndGroups>>
        /\ UNCHANGED ledgerVars
        /\ UNCHANGED <<minted, invocations>>

\* await sendAndConfirmTransaction(route, "processed") settles.
MintRoute(c, ok, error) ==
    LET r == calls[c]
    IN  /\ r.pc = "route"
        /\ Step(c, r,
                IF ok THEN SubmitMints([r EXCEPT !.route = "processed"])
                ELSE Catch([r EXCEPT !.route = "rejected"], error),
                FALSE)
        /\ UNCHANGED <<allowLists, wallet, proofMemo, candyMachine, holdings, evals, guardsAndGroups>>
        /\ UNCHANGED ledgerVars
        /\ UNCHANGED <<minted, invocations>>

\* mx.nfts().findByMint({mintAddress, tokenAddress}) when it finds the item:
\* the item of that mint account (items are numbered from 1, 0 is null).
FindByMint(context) ==
    context.mintSigner + 1

\* The lookups start once Promise.all of the submissions is fulfilled.
StartLookups(r) ==
    [r EXCEPT !.pc = "lookups", !.lookups = [i \in 1..Len(r.txs) |-> "pending"]]

\* sendAndConfirmTransaction(tx_i, "finalized") settles. The first rejection
\* rejects Promise.all; the other submissions stay in flight.
MintTx(c, i, ok, error) ==
    LET r == calls[c]
        r1 == [r EXCEPT !.txs[i] = IF ok THEN "finalized" ELSE "rejected",
                        !.outputs[i] = IF ok THEN GetContext(r.builders[i]) ELSE @]
        r2 == IF r.pc # "mints" THEN r1
              ELSE IF ~ok THEN Catch(r1, error)
              ELSE IF \A k \in 1..Len(r1.txs) : r1.txs[k] = "finalized" THEN StartLookups(r1)
              ELSE r1
    IN  /\ i \in 1..Len(r.txs)
        /\ r.txs[i] = "sent"
        /\ Step(c, r, r2, FALSE)
        /\ minted' = IF ok /\ r.wal # NoKey
                     THEN [minted EXCEPT ![r.wal] = @ + 1]
                     ELSE minted
        /\ UNCHANGED <<allowLists, wallet, proofMemo, candyMachine, holdings, evals, guardsAndGroups>>
        /\ UNCHANGED ledgerVars
        /\ UNCHANGED invocations

\* findByMint for the i-th output settles (a failure becomes null). When the
\* last one has, nfts is assigned, the counters are increased and the finally
\* block runs.
MintLookup(c, i, ok) ==
    LET r == calls[c]
        r1 == [r EXCEPT !.lookups[i] = IF ok THEN "item" ELSE "null"]
        all == \A k \in 1..Len(r1.lookups) : r1.lookups[k] # "pending"
        nfts == [k \in 1..Len(r1.lookups) |->
                    IF r1.lookups[k] = "item" THEN FindByMint(r1.outputs[k]) ELSE 0]
        n == CounterIncrement(nfts)
        r2 == Finally([r1 EXCEPT !.nfts = nfts, !.gg = AddToCounters(@, n)])
    IN  /\ r.pc = "lookups"
        /\ i \in 1..Len(r.lookups)
        /\ r.lookups[i] = "pending"
        /\ IF all
           THEN /\ Step(c, r, r2, FALSE)
                /\ guardsAndGroups' =
                       IF guardsAndGroups.id = r.ggId
                       THEN [guardsAndGroups EXCEPT !.groups = AddToCounters(@, n)]
                       ELSE guardsAndGroups
           ELSE /\ Step(c, r, r1, FALSE)
                /\ UNCHANGED guardsAndGroups
        /\ UNCHANGED <<allowLists, wallet, proofMemo, candyMachine, holdings, evals>>
        /\ UNCHANGED ledgerVars
        /\ UNCHANGED <<minted, invocations>>

Next ==
    \/ \E w \in Addr : wallet = NoKey /\ SetWallet(w)
    \/ \E ok \in BOOLEAN : HoldingsDone(ok)
    \/ Refresh
    \/ \E ok \in BOOLEAN : RefreshDone(ok)
    \/ \E i \in 1..MaxInflight, l \in Labels, ok \in BOOLEAN : ParseGuardGroup(i, l, ok)
    \/ \E c \in CallIds, q \in 1..MaxQty, label \in ReqLabels : MintCall(c, q, label)
    \/ \E c \in CallIds, ok \in BOOLEAN, e \in NetErrors : MintBuild(c, ok, e)
    \/ \E c \in CallIds, ok \in BOOLEAN, e \in NetErrors : MintBlockhash(c, ok, e)
    \/ \E c \in CallIds, ok \in BOOLEAN, e \in NetErrors : MintSign(c, ok, e)
    \/ \E c \in CallIds, ok \in BOOLEAN, e \in NetErrors : MintRoute(c, ok, e)
    \/ \E c \in CallIds, i \in 1..MaxQty, ok \in BOOLEAN, e \in NetErrors : MintTx(c, i, ok, e)
    \/ \E c \in CallIds, i \in 1..MaxQty, ok \in BOOLEAN : MintLookup(c, i, ok)

\* The allow-lists the mint flow is run with: a list of one address and a
\* list of two, so that a connected wallet has either no proof of its own
\* (not listed, or the only leaf) or a proof of one sibling.
MintLists == {<<1>>, <<1, 2>>}

InitMint ==
    /\ Init
    /\ \A i \in 1..Len(allowLists) : allowLists[i].list \in MintLists

Spec == InitMint /\ [][Next]_vars

\* ------------------------------------------- the classifier on its inputs
\* Longest error message, in tokens.
MaxMsgLen == 2

RECURSIVE Messages(_)
Messages(n) ==
    IF n = 0 THEN {<<>>}
    ELSE Messages(n - 1) \cup {Append(m, t) : m \in {x \in Messages(n - 1) : Len(x) = n - 1},
                                              t \in Tokens}

\* The errors the catch block can be handed: without msg and with any message
\* (none included), or with msg and one of the codes it tells apart.
Errors ==
    {[msg |-> "", message |-> m, code |-> 0] : m \in Messages(MaxMsgLen)}
    \cup {[msg |-> "x", message |-> <<"x">>, code |-> k] : k \in {311, 312, 0}}

\* A page without allow-lists on a candy machine without groups.
InitPlain ==
    /\ Init
    /\ allowLists = <<>>
    /\ cmGroups = {}
    /\ cmLimits = {}

\* mint(1) whose first builder call settles, with any of the errors.
NextClassify ==
    \/ \E w \in Addr : wallet = NoKey /\ SetWallet(w)
    \/ \E ok \in BOOLEAN : HoldingsDone(ok)
    \/ Refresh
    \/ \E ok \in BOOLEAN : RefreshDone(ok)
    \/ \E i \in 1..MaxInflight, l \in Labels, ok \in BOOLEAN : ParseGuardGroup(i, l, ok)
    \/ \E c \in CallIds : MintCall(c, 1, NoLabel)
    \/ \E c \in CallIds, ok \in BOOLEAN, e \in Errors : MintBuild(c, ok, e)

SpecClassify == InitPlain /\ [][NextClassify]_vars

\* ------------------------------------------ evaluations that overlap
\* Guard-group evaluations in flight at once when the inputs change faster
\* than an evaluation takes.
MaxEvals == MaxInflight + 1

InitEval ==
    /\ InitHook
    /\ allowLists = <<>>
    /\ calls = [c \in CallIds |-> IdleCall]
    /\ load = [invocations |-> 0, inflight |-> MaxEvals]

NextEval ==
    \/ \E w \in Wallets : SetWallet(w)
    \/ \E ok \in BOOLEAN : HoldingsDone(ok)
    \/ Refresh
    \/ \E ok \in BOOLEAN : RefreshDone(ok)
    \/ \E i \in 1..MaxEvals, l \in Labels, ok \in BOOLEAN : ParseGuardGroup(i, l, ok)

SpecEval == InitEval /\ [][NextEval]_vars

\* ------------------------------------------ mint invocations that overlap
\* The page calls mint again while an invocation is running.
OverlapIds == 1..(MaxInvocations + 1)

\* The one error the awaited calls reject with here.
OverlapErrors == {[msg |-> "", message |-> <<>>, code |-> 0]}

InitOverlap ==
    /\ InitHook
    /\ allowLists = <<>>
    /\ cmGroups = {}
    /\ cmLimits = {}
    /\ calls = [c \in OverlapIds |-> IdleCall]
    /\ load = [invocations |-> Cardinality(OverlapIds), inflight |-> MaxInflight]

NextOverlap ==
    \/ \E w \in Addr : wallet = NoKey /\ SetWallet(w)
    \/ \E ok \in BOOLEAN : HoldingsDone(ok)
    \/ Refresh
    \/ \E ok \in BOOLEAN : RefreshDone(ok)
    \/ \E i \in 1..MaxInflight, l \in Labels, ok \in BOOLEAN : ParseGuardGroup(i, l, ok)
    \/ \E c \in OverlapIds : MintCall(c, 1, NoLabel)
    \/ \E c \in OverlapIds, ok \in BOOLEAN, e \in OverlapErrors : MintBuild(c, ok, e)
    \/ \E c \in OverlapIds, ok \in BOOLEAN, e \in OverlapErrors : MintBlockhash(c, ok, e)
    \/ \E c \in OverlapIds, ok \in BOOLEAN, e \in OverlapErrors : MintSign(c, ok, e)
    \/ \E c \in OverlapIds, ok \in BOOLEAN, e \in OverlapErrors : MintTx(c, 1, ok, e)
    \/ \E c \in OverlapIds, ok \in BOOLEAN : MintLookup(c, 1, ok)

SpecOverlap == InitOverlap /\ [][NextOverlap]_vars

\* ------------------------------------------------------------------ claims
\* The invocations that have been made.
Made == {c \in CallIds : calls[c].pc # "idle"}

\* The mint transactions of a record that the ledger finalized.
Finalized(r) == {i \in 1..Len(r.txs) : r.txs[i] = "finalized"}

\* The groups of a guards object that carry a mint counter.
Counted(groups) == {l \in DOMAIN groups : groups[l].count # NoCounter}

\* The list the allow-lists give for a label.
ListOf(al, l) ==
    al[CHOOSE k \in 1..Len(al) :
          /\ al[k].groupLabel = l
          /\ \A j \in 1..Len(al) : al[j].groupLabel = l => j <= k].list

Members(list) == {list[i] : i \in 1..Len(list)}

\* The roots verifyProof is asked about: of every list, and of no tree.
Roots == {MerkleRoot(l) : l \in Lists} \cup {0}

\* C1: in a call whose plan has a route transaction, mint transactions are
\* handed to the ledger only once the route transaction is confirmed
\* ("processed"); after a rejected route submission none ever is.
C1_RouteBarrier ==
    \A c \in CallIds :
        /\ calls[c].allowList /\ Len(calls[c].txs) > 0 => calls[c].route = "processed"
        /\ calls[c].route \in {"sent", "rejected"} => Len(calls[c].txs) = 0

C1_Witness ==
    \E c \in CallIds :
        /\ calls[c].allowList
        /\ calls[c].route = "processed"
        /\ calls[c].q = MaxQty
        /\ \A i \in 1..calls[c].q : calls[c].txs[i] = "sent"

\* C2 (as claimed): when the route submission or a mint submission is
\* rejected, the promise mint returned is rejected with the Error carrying the
\* classified message, and no item sequence is returned.
C2_SubmissionFailureFailsCall ==
    \A c \in CallIds :
        (calls[c].route = "rejected" \/ \E i \in 1..Len(calls[c].txs) : calls[c].txs[i] = "rejected")
        => /\ calls[c].outcome = "rejected"
           /\ calls[c].thrown # ""
           /\ calls[c].error = calls[c].thrown

\* C3 (as claimed): every invocation that has ended ran the cleanup (status
\* reset and refresh) exactly once.
C3_CleanupOnEveryExit ==
    \A c \in CallIds :
        calls[c].pc = "done" => calls[c].cleanups = 1 /\ calls[c].refreshes = 1

\* C3 (amended): the cleanup runs exactly once on every exit of the try
\* statement, and not at all when mint throws before it (unknown group, or
\* the allow-list lookup on a proofMemo without merkles).
C3_CleanupOncePastChecks ==
    /\ \A c \in CallIds :
        /\ calls[c].cleanups <= 1
        /\ calls[c].refreshes = calls[c].cleanups
        /\ calls[c].pc # "done" => calls[c].cleanups = 0
        /\ calls[c].pc = "done" =>
              (calls[c].cleanups = 0 <=>
                  calls[c].outcome = "rejected" /\ calls[c].error \in {UnknownGroup, TypeError})
    /\ (\A c \in CallIds : calls[c].pc \in {"idle", "done"}) => minting = FALSE

C3_Witness ==
    \E c \in CallIds :
        /\ calls[c].pc = "done"
        /\ calls[c].cleanups = 1
        /\ calls[c].thrown # ""
        /\ Finalized(calls[c]) # {}

\* C4 (as claimed): when all q mint transactions are finalized and k lookups
\* succeed, every mint counter has grown by k and k items are returned.
C4_CountersGrowByResolved ==
    \A c \in CallIds :
        LET r == calls[c]
            k == Cardinality({i \in 1..Len(r.lookups) : r.lookups[i] = "item"})
        IN  (r.pc = "done" /\ Len(r.lookups) = r.q /\ r.q > 0)
            => /\ Len(r.result) = k
               /\ \A l \in Counted(r.gg0) : r.gg[l].count = r.gg0[l].count + k

\* C5 (as claimed): a call that fails after one of its mint transactions was
\* finalized still increases the mint counters.
C5_CountersGrowOnFailure ==
    \A c \in CallIds :
        LET r == calls[c]
        IN  (r.pc = "done" /\ r.thrown # "" /\ Finalized(r) # {})
            => \A l \in Counted(r.gg0) : r.gg[l].count > r.gg0[l].count

\* C5 (amended): the increment is the last statement of the try block: a
\* call that ends through the catch block leaves every mint counter as it
\* was, however many of its mint transactions were finalized.
C5_CountersKeptOnFailure ==
    \A c \in CallIds :
        LET r == calls[c]
        IN  /\ (r.pc # "done" \/ r.thrown # "") => r.gg = r.gg0
            /\ guardsAndGroups.id = r.ggId => guardsAndGroups.groups = r.gg

C5_Witness ==
    \E c \in CallIds :
        /\ calls[c].pc = "done"
        /\ calls[c].thrown # ""
        /\ Finalized(calls[c]) # {}
        /\ Counted(calls[c].gg0) # {}
        /\ \E i \in 1..Len(calls[c].txs) : calls[c].txs[i] = "rejected"

\* C6 (as claimed): a call for a group that has an allow-list (the default
\* group included) by a caller with an empty proof fails with NotInAllowList
\* and hands nothing to the ledger.
C6_EmptyProofFails ==
    \A c \in Made :
        LET r == calls[c]
            key == GroupKey(r.label)
        IN  (/\ key \in DOMAIN r.gg0
             /\ r.cm = "loaded"
             /\ r.pm.kind = "merkles"
             /\ key \in DOMAIN r.pm.merkles
             /\ Len(r.pm.merkles[key].proof) = 0)
            => /\ r.pc = "done"
               /\ r.outcome = "rejected"
               /\ r.error = NotInAllowList
               /\ r.route = "none"
               /\ Len(r.txs) = 0

\* C7 (as claimed): a call for an unknown group fails with UnknownGroup, a
\* call made without a candy machine fails with CandyMachineNotLoaded; both
\* reject the promise, build nothing and leave the counters alone.
C7_ValidationFatal ==
    \A c \in Made :
        LET r == calls[c]
            quiet == /\ r.pc = "done"
                     /\ r.outcome = "rejected"
                     /\ r.builders = <<>>
                     /\ r.signed = 0
                     /\ Len(r.txs) = 0
                     /\ r.gg = r.gg0
        IN  /\ (GroupKey(r.label) \notin DOMAIN r.gg0 /\ r.cm = "loaded")
               => quiet /\ r.error = UnknownGroup
            /\ r.cm = "null" => quiet /\ r.error = CandyMachineNotLoaded

\* C8 (as claimed): with the memo computed from the current inputs,
\* verifyProof(root of the label's tree, label) is true exactly for a caller
\* in the label's list, and a caller outside it has an empty proof.
C8_VerifyIffMember ==
    (proofMemo.kind = "merkles" /\ proofMemo = ProofMemoCompute(allowLists, wallet))
    => \A l \in DOMAIN proofMemo.merkles :
          LET list == ListOf(allowLists, l)
          IN  /\ (VerifyProof(proofMemo, MerkleRoot(list), l) = "true")
                    <=> wallet \in Members(list)
              /\ wallet \notin Members(list) => proofMemo.merkles[l].proof = <<>>

\* C9 (as claimed): the memo always is the one derived from the current
\* allow-lists and the current wallet.
C9_MemoCurrent ==
    proofMemo = ProofMemoCompute(allowLists, wallet)

\* C10: without any allow-list, verifyProof answers true for every root and
\* every label, with or without a wallet.
C10_OpenMint ==
    Len(allowLists) = 0 =>
        \A root \in Roots, l \in Labels \cup {NoLabel} :
            VerifyProof(proofMemo, root, l) = "true"

C10_Witness ==
    /\ Len(allowLists) = 0
    /\ wallet = NoKey
    /\ candyMachine = "loaded"
    /\ VerifyProof(proofMemo, MerkleRoot(<<1>>), "A") = "true"

\* The whole plan of a call once its transactions are made: the route
\* transaction, shifted off or not, and the mint transactions.
Plan(r) ==
    IF r.routeTx # NoTx THEN <<r.routeTx>> \o r.transactions ELSE r.transactions

\* The q mint builders of a call, in the order of the loop.
QMintBuilders(q) ==
    [i \in 1..q |-> MintBuilder(i - 1)]

\* C11 (as claimed): a call for a known group with the candy machine loaded
\* gets past validation and builds q mint builders and nothing else when the
\* group has no allow-list, and one route builder followed by q mint builders
\* when the group (the default group included) has an allow-list and the
\* caller's proof is not empty.
C11_PlanShape ==
    \A c \in Made :
        LET r == calls[c]
            key == GroupKey(r.label)
            applies == \E i \in 1..Len(allowLists) : allowLists[i].groupLabel = key
            proved == /\ r.pm.kind = "merkles"
                      /\ key \in DOMAIN r.pm.merkles
                      /\ Len(r.pm.merkles[key].proof) > 0
            built == r.pc \in {"blockhash", "sign"}
        IN  (key \in DOMAIN r.gg0 /\ r.cm = "loaded")
            => /\ ~applies => /\ r.outcome # "rejected"
                              /\ built => r.builders = QMintBuilders(r.q)
               /\ (applies /\ proved) =>
                     (built => r.builders = <<RouteBuilder>> \o QMintBuilders(r.q))

\* The keys of the batch signers the builders of a plan ask for.
RequiredBatchSigners(r) ==
    UNION {{GetSigners(r.builders[i], r.wal)[k].key :
               k \in {j \in 1..Len(GetSigners(r.builders[i], r.wal)) :
                         GetSigners(r.builders[i], r.wal)[j].kind = "identity"}} :
           i \in 1..Len(r.builders)}

\* C14: every sign request carries the whole plan (the route transaction and
\* the q mint transactions); no batch signer is asked twice; nothing is handed
\* to the ledger before every required batch signer has signed, and nothing at
\* all once one of them has refused.
C14_BatchSigners ==
    \A c \in DOMAIN calls :
        LET r == calls[c]
            submitted == r.route # "none" \/ Len(r.txs) > 0
        IN  /\ \A k \in 1..Len(r.signCalls) :
                  /\ r.signCalls[k].received = Plan(r)
                  /\ Len(r.signCalls[k].received) = r.q + (IF r.allowList THEN 1 ELSE 0)
                  /\ \A j \in 1..Len(r.signCalls) :
                        r.signCalls[j].signer = r.signCalls[k].signer => j = k
            /\ submitted =>
                  /\ {r.signCalls[k].signer : k \in 1..Len(r.signCalls)} = RequiredBatchSigners(r)
                  /\ \A k \in 1..Len(r.signCalls) : r.signCalls[k].ok
            /\ (\E k \in 1..Len(r.signCalls) : ~r.signCalls[k].ok)
                  => r.pc = "done" /\ ~submitted

C14_Witness ==
    \E c \in DOMAIN calls :
        /\ calls[c].allowList
        /\ calls[c].q = MaxQty
        /\ calls[c].pc = "route"
        /\ Len(calls[c].signCalls) = 1
        /\ Len(calls[c].signCalls[1].received) = MaxQty + 1

\* C15: the submission stage hands all q mint transactions to the ledger at
\* once, and a transaction handed over stays submitted until the ledger
\* settles it, whatever happens to the others and to the call.
C15_AllMintsSubmitted ==
    /\ [](\A c \in DOMAIN calls :
            /\ Len(calls[c].txs) \in {0, calls[c].q}
            /\ calls[c].pc \in {"mints", "lookups"} => Len(calls[c].txs) = calls[c].q)
    /\ [][\A c \in DOMAIN calls : \A i \in 1..Len(calls[c].txs) :
            (invocations' = invocations /\ calls[c].txs[i] = "sent")
            => /\ Len(calls'[c].txs) = Len(calls[c].txs)
               /\ calls'[c].txs[i] \in {"sent", "finalized", "rejected"}]_vars

C15_Witness ==
    \E c \in DOMAIN calls :
        /\ calls[c].pc = "done"
        /\ calls[c].thrown # ""
        /\ \E i, j \in 1..Len(calls[c].txs) :
              calls[c].txs[i] = "rejected" /\ calls[c].txs[j] = "sent"

\* The items of the lookups that succeeded, in plan order: the k-th mint
\* transaction creates item k.
RECURSIVE Succeeded(_)
Succeeded(lookups) ==
    IF lookups = <<>> THEN <<>>
    ELSE Succeeded(SubSeq(lookups, 1, Len(lookups) - 1))
         \o (IF lookups[Len(lookups)] = "item" THEN <<Len(lookups)>> ELSE <<>>)

\* C16: a call whose mint transactions were all finalized resolves with the
\* items of the lookups that succeeded, in plan order; a lookup that failed
\* takes out its own slot only and raises nothing.
C16_FailedLookupOwnSlot ==
    \A c \in DOMAIN calls :
        LET r == calls[c]
        IN  (r.pc = "done" /\ r.q > 0 /\ Len(r.lookups) = r.q)
            => /\ r.outcome = "resolved"
               /\ r.thrown = ""
               /\ r.error = ""
               /\ r.result = Succeeded(r.lookups)

C16_Witness ==
    \E c \in DOMAIN calls :
        /\ calls[c].pc = "done"
        /\ calls[c].lookups = <<"null", "item">>
        /\ calls[c].result = <<2>>

\* C17: the block hash is fetched once, when all q mint builders are there;
\* from signing on, every transaction of the plan carries that block hash and
\* the caller's wallet as fee payer.
C17_OneBlockhash ==
    \A c \in DOMAIN calls :
        LET r == calls[c]
        IN  /\ r.blockhash <= 1
            /\ r.pc = "build" => r.blockhash = 0
            /\ r.pc = "blockhash" => r.blockhash = 0 /\ Len(MintBuilders(r)) = r.q
            /\ (r.pc = "sign" \/ r.signed > 0) =>
                  /\ r.blockhash = 1
                  /\ r.wal # NoKey
                  /\ Len(Plan(r)) = r.q + (IF r.allowList THEN 1 ELSE 0)
                  /\ \A k \in 1..Len(Plan(r)) :
                        /\ Plan(r)[k].blockhash = LatestBlockhash(1)
                        /\ Plan(r)[k].feePayer = r.wal

C17_Witness ==
    \E c \in DOMAIN calls :
        /\ calls[c].allowList
        /\ calls[c].q = MaxQty
        /\ calls[c].pc = "mints"
        /\ calls[c].routeTx.blockhash = calls[c].transactions[MaxQty].blockhash
        /\ calls[c].routeTx.feePayer = wallet

\* C18: the context attached to the i-th finalized mint transaction is the
\* context of the builder that made that transaction, and the item looked up
\* for it is the item of that builder's mint account.
C18_LookupOwnContext ==
    \A c \in DOMAIN calls :
        LET r == calls[c]
        IN  /\ \A i \in 1..Len(r.txs) :
                  r.txs[i] = "finalized" =>
                      /\ r.transactions[i].kind = "mint"
                      /\ r.outputs[i] = [mintSigner |-> r.transactions[i].index,
                                         tokenAddress |-> r.transactions[i].index]
            /\ \A i \in 1..Len(r.nfts) :
                  r.nfts[i] # 0 => r.nfts[i] = r.transactions[i].index + 1

C18_Witness ==
    \E c \in DOMAIN calls :
        /\ calls[c].allowList
        /\ calls[c].q = MaxQty
        /\ calls[c].pc = "done"
        /\ Len(calls[c].nfts) = MaxQty
        /\ \A i \in 1..MaxQty : calls[c].nfts[i] = i

\* Whether a message holds a token, wherever it stands.
Contains(message, tok) ==
    \E i \in 1..Len(message) : message[i] = tok

\* The invocations whose catch block ran on an error of the awaited calls.
Caught == {c \in DOMAIN calls : calls[c].caught # NoError}

\* C12 (as claimed): an error whose message holds the sold-out signature
\* (0x137) anywhere is classified SoldOut, one whose message holds the
\* insufficient-funds signature (0x135) is classified InsufficientFunds.
C12_SignatureAnywhere ==
    \A c \in Caught :
        LET e == calls[c].caught
        IN  /\ Contains(e.message, "0x137") => calls[c].thrown = SoldOut
            /\ (Contains(e.message, "0x135") /\ ~Contains(e.message, "0x137"))
                  => calls[c].thrown = InsufficientFunds

\* C13 (as claimed): Timeout exactly for an error without msg and without
\* message; an error with neither signature nor a known code is classified as
\* the generic failure (the default text, or the msg it came with).
C13_TimeoutAndGeneric ==
    \A c \in Caught :
        LET e == calls[c].caught
            known == \/ Contains(e.message, "0x137")
                     \/ Contains(e.message, "0x135")
                     \/ (e.msg # "" /\ e.code \in {311, 312})
        IN  /\ calls[c].thrown = Timeout <=> (e.msg = "" /\ e.message = <<>>)
            /\ (~known /\ ~(e.msg = "" /\ e.message = <<>>))
                  => calls[c].thrown = (IF e.msg # "" THEN e.msg ELSE MintFailed)

\* C19 (as claimed): with a wallet and a candy machine, once no fetch and no
\* evaluation is in flight, the guards published are the ones evaluated for
\* the current wallet.
C19_LatestEvaluationWins ==
    (wallet # NoKey /\ candyMachine = "loaded" /\ refreshing = 0 /\ holdings = 0 /\ evals = <<>>)
    => guardsAndGroups.groups = EvaluatedGroups([wallet |-> wallet])

\* The invocations past validation that have not reached their finally block.
Running == {c \in DOMAIN calls :
               calls[c].pc \in {"build", "blockhash", "sign", "route", "mints", "lookups"}}

\* C20 (as claimed): status.minting is true as long as some invocation is
\* between validation and cleanup, other invocations ending or not.
C20_MintingWhileRunning ==
    Running # {} => minting = TRUE

====
